---------------------------- MODULE Spec2Model ----------------------------
(***************************************************************************)
(* requests-safe: the denylist classifier ip_is_safe, the safe dialer      *)
(* create_connection, its wrapper SafeHTTPConnection._new_conn and the     *)
(* session wiring (SafePoolManager, SafeHTTPAdapter, apply), modelled as   *)
(* state machines from src/src/requests_safe/__init__.py.                  *)
(*                                                                         *)
(* An IP address is a record [v, g]: its version (4 or 6) and its groups,  *)
(* most significant first (four octets, or eight 16-bit groups), so that   *)
(* no number exceeds 16 bits.  A network adds its prefix length.           *)
(***************************************************************************)
EXTENDS Integers, Sequences, FiniteSets, TLC

VARIABLES
    net,        \* the network: what a connect to each address does
    call,       \* per dial: the frame of _new_conn / create_connection
    sockets,    \* every socket object created so far, in creation order
    probe,      \* one direct call of ip_is_safe: its argument and verdict
    session,    \* session.adapters of a requests.Session
    req         \* one session.get: its hops, redirects and final outcome

vars == <<net, call, sockets, probe, session, req>>

----------------------------------------------------------------------------
(* Addresses and networks *)

V4(a, b, c, d) == [v |-> 4, g |-> <<a, b, c, d>>]

V6(g) == [v |-> 6, g |-> g]

Net4(a, b, c, d, p) == [v |-> 4, g |-> <<a, b, c, d>>, plen |-> p]

Net6(g, p) == [v |-> 6, g |-> g, plen |-> p]

\* A literal that ipaddress.ip_address() cannot parse.
Malformed == [v |-> 0, g |-> <<>>]

\* No address at all (an exception that belongs to no candidate).
NoAddr == [v |-> 9, g |-> <<>>]

UNSAFE_NETWORKS ==
    << Net4(10, 0, 0, 0, 8),              \* 10.0.0.0/8
       Net4(172, 16, 0, 0, 12),           \* 172.16.0.0/12
       Net4(192, 168, 0, 0, 16),          \* 192.168.0.0/16
       Net4(169, 254, 0, 0, 16),          \* 169.254.0.0/16
       Net4(100, 64, 0, 0, 10),           \* 100.64.0.0/10
       Net4(127, 0, 0, 0, 8),             \* 127.0.0.0/8
       Net4(0, 0, 0, 0, 32),              \* 0.0.0.0/32
       Net4(192, 0, 0, 0, 24),            \* 192.0.0.0/24
       Net4(192, 0, 2, 0, 24),            \* 192.0.2.0/24
       Net4(192, 88, 99, 0, 24),          \* 192.88.99.0/24
       Net4(198, 18, 0, 0, 15),           \* 198.18.0.0/15
       Net4(198, 51, 100, 0, 24),         \* 198.51.100.0/24
       Net4(203, 0, 113, 0, 24),          \* 203.0.113.0/24
       Net4(224, 0, 0, 0, 4),             \* 224.0.0.0/4
       Net4(240, 0, 0, 0, 4),             \* 240.0.0.0/4
       Net4(255, 255, 255, 255, 32),      \* 255.255.255.255/32
       Net6(<<0, 0, 0, 0, 0, 0, 0, 0>>, 128),         \* ::/128
       Net6(<<0, 0, 0, 0, 0, 0, 0, 1>>, 128),         \* ::1/128
       Net6(<<0, 0, 0, 0, 0, 65535, 0, 0>>, 96),      \* ::ffff:0:0/96
       Net6(<<0, 0, 0, 0, 65535, 0, 0, 0>>, 96),      \* ::ffff:0:0:0/96
       Net6(<<100, 65435, 0, 0, 0, 0, 0, 0>>, 96),    \* 64:ff9b::/96
       Net6(<<256, 0, 0, 0, 0, 0, 0, 0>>, 64),        \* 100::/64
       Net6(<<8193, 0, 0, 0, 0, 0, 0, 0>>, 32),       \* 2001::/32
       Net6(<<8193, 32, 0, 0, 0, 0, 0, 0>>, 28),      \* 2001:20::/28
       Net6(<<8193, 3512, 0, 0, 0, 0, 0, 0>>, 32),    \* 2001:db8::/32
       Net6(<<8194, 0, 0, 0, 0, 0, 0, 0>>, 16),       \* 2002::/16
       Net6(<<64512, 0, 0, 0, 0, 0, 0, 0>>, 7),       \* fc00::/7
       Net6(<<65152, 0, 0, 0, 0, 0, 0, 0>>, 10),      \* fe80::/10
       Net6(<<65280, 0, 0, 0, 0, 0, 0, 0>>, 8) >>     \* ff00::/8

\* Bits per group of an address of version v.
GroupBits(v) == IF v = 4 THEN 8 ELSE 16

RECURSIVE Pow2(_)
Pow2(n) == IF n = 0 THEN 1 ELSE 2 * Pow2(n - 1)

\* How many bits of group k (1-based) a prefix of plen bits covers.
PrefixBitsIn(v, plen, k) ==
    LET w == GroupBits(v)
        left == plen - (k - 1) * w
    IN  IF left <= 0 THEN 0 ELSE IF left >= w THEN w ELSE left

\* x & mask, for the mask of a group whose top `keep` bits are ones.
MaskGroup(v, x, keep) ==
    LET low == Pow2(GroupBits(v) - keep) IN (x \div low) * low

\* ipaddress: `ip in network`. Never true across versions; otherwise
\* ip & netmask = network_address, here group by group.
ip_in_network(ip, n) ==
    /\ ip.v = n.v
    /\ \A k \in 1..Len(n.g) :
          MaskGroup(n.v, ip.g[k], PrefixBitsIn(n.v, n.plen, k)) = n.g[k]

\* ipaddress.ip_address(ip) raises ValueError on what is no IP literal.
ip_address_raises(lit) == lit.v \notin {4, 6}

\* ip_is_safe_loop returning True as soon as one network does not match.
RECURSIVE ip_is_safe_loop_first_only(_, _, _)
ip_is_safe_loop_first_only(ip, nets, k) ==
    IF k > Len(nets) THEN TRUE
    ELSE IF ip_in_network(ip, nets[k]) THEN FALSE
    ELSE TRUE

\* for network in UNSAFE_NETWORKS: if ip in network: return False
\* return True                         (from network k of the list on)
RECURSIVE ip_is_safe_loop(_, _, _)
ip_is_safe_loop(ip, nets, k) ==
    IF k > Len(nets) THEN TRUE
    ELSE IF ip_in_network(ip, nets[k]) THEN FALSE
    ELSE ip_is_safe_loop(ip, nets, k + 1)

\* ip_is_safe(ip) for a literal that parses.
ip_is_safe(ip) == ip_is_safe_loop(ip, UNSAFE_NETWORKS, 1)

\* ip_is_safe(ip) as a caller sees it.
ip_is_safe_result(lit) ==
    IF ip_address_raises(lit) THEN "ValueError"
    ELSE IF ip_is_safe(lit) THEN "True" ELSE "False"

----------------------------------------------------------------------------
(* Values of the dial *)

\* The addresses the resolver answers with (those of tests/test_it.py).
SAFE4 == V4(93, 184, 216, 34)

SAFE6 == V6(<<9734, 10240, 544, 1, 584, 6291, 9672, 6470>>)

UNSAFE4 == V4(10, 10, 10, 58)

UNSAFE6 == V6(<<8193, 3512, 0, 0, 0, 0, 0, 1>>)

SafeSample == {SAFE4, SAFE6}

UnsafeSample == {UNSAFE4, UNSAFE6}

\* Longest resolver answer.
MaxCands == 3

\* What the operating system does with an attempt on an address: the
\* connect succeeds, is refused, times out, or no socket can be created.
Outcomes == {"connected", "refused", "timedout", "nosocket"}

\* An unsafe address is an internal service that would accept the connect.
Reach(ip) == IF ip \in DOMAIN net THEN net[ip] ELSE "connected"

\* One entry (af, socktype, proto, canonname, sa) of getaddrinfo's answer;
\* socktype, proto and the port are the same for all.
Res(ip) == [af |-> IF ip.v = 4 THEN "AF_INET" ELSE "AF_INET6", sa0 |-> ip]

AnswersOver(ips, n) == UNION {[1..k -> {Res(ip) : ip \in ips}] : k \in 0..n}

ResolverAnswers == AnswersOver(SafeSample \cup UnsafeSample, MaxCands)

\* socket_options: None, or a list of (level, option, value).
NoneOpts == [none |-> TRUE, list |-> <<>>]

ListOpts(l) == [none |-> FALSE, list |-> l]

SocketOptionChoices ==
    {NoneOpts, ListOpts(<<>>), ListOpts(<<"TCP_NODELAY", "SO_KEEPALIVE">>)}

\* socket._GLOBAL_DEFAULT_TIMEOUT is a sentinel object, not a number.
GLOBAL_DEFAULT_TIMEOUT == "_GLOBAL_DEFAULT_TIMEOUT"

TimeoutChoices == {GLOBAL_DEFAULT_TIMEOUT, "5"}

\* Exceptions: the type, the message (pieces of text), and the address of
\* the candidate whose attempt raised it.
Exc(type, msg, addr) == [type |-> type, msg |-> msg, addr |-> addr]

NoExc == Exc("None", <<>>, NoAddr)

\* isinstance(e, socket.timeout)
IsSocketTimeout(e) == e.type = "socket.timeout"

\* isinstance(e, socket.error): socket.timeout and socket.gaierror are
\* subclasses of it.
IsSocketError(e) == e.type \in {"socket.error", "socket.timeout", "socket.gaierror"}

ConnectExc(ip) ==
    IF Reach(ip) = "timedout" THEN Exc("socket.timeout", <<"timed out">>, ip)
    ELSE Exc("socket.error", <<"Connection refused">>, ip)

NoOutcome == [kind |-> "none", sock |-> 0, exc |-> NoExc]

Returned(s) == [kind |-> "return", sock |-> s, exc |-> NoExc]

Raised(e) == [kind |-> "raise", sock |-> 0, exc |-> e]

Calls == {1, 2}

IdleCall ==
    [pc |-> "idle", conn_opts |-> NoneOpts, timeout |-> GLOBAL_DEFAULT_TIMEOUT,
     opts |-> NoneOpts, answer |-> <<>>, cands |-> <<>>, i |-> 0, err |-> NoExc,
     sock |-> 0,
     exc |-> NoExc, cc |-> NoOutcome, out |-> NoOutcome,
     classified |-> <<>>, attempts |-> <<>>]

\* The candidate the loop of call c is at.
Cur(c) == call[c].cands[call[c].i]

\* sock.<op>(...) on socket s, leaving it in state st.
SockOp(s, op, st) ==
    [sockets EXCEPT ![s] = [@ EXCEPT !.ops = Append(@, op), !.state = st]]

RECURSIVE SetOpts(_, _)
SetOpts(ops, l) ==
    IF l = <<>> THEN ops
    ELSE SetOpts(Append(ops, <<"setsockopt", Head(l)>>), Tail(l))

\* The attempt in progress ends with exception e (NoExc: it connected).
EndAttempt(c, e) ==
    [call[c].attempts EXCEPT ![Len(call[c].attempts)] = [@ EXCEPT !.exc = e, !.open = FALSE]]

----------------------------------------------------------------------------
(* SafeHTTPConnection._new_conn and create_connection *)

\* _new_conn, to the call of create_connection: socket_options is passed
\* only when the connection's is truthy; otherwise the default (None) is used.
new_conn(c, optChoices, timeoutChoices) ==
    /\ call[c].pc = "idle"
    /\ \E so \in optChoices, t \in timeoutChoices :
          call' = [call EXCEPT ![c] =
                     [@ EXCEPT !.pc = "getaddrinfo", !.conn_opts = so, !.timeout = t,
                               !.opts = IF ~so.none /\ so.list # <<>> THEN so ELSE NoneOpts]]
    /\ UNCHANGED <<net, sockets, probe, session, req>>

\* getaddrinfo that keeps the list of the call before it, when there is one.
getaddrinfo_cached(c, answers) ==
    /\ call[c].pc = "getaddrinfo"
    /\ \E ans \in answers :
          call' = [call EXCEPT ![c] =
                     [@ EXCEPT !.pc = "for", !.answer = ans, !.i = 0, !.err = NoExc,
                               !.cands = IF c > 1 /\ call[c - 1].pc = "done"
                                         THEN call[c - 1].cands ELSE ans]]
    /\ UNCHANGED <<net, sockets, probe, session, req>>

\* err = None; socket.getaddrinfo(...): an answer (answer is what the
\* resolver said, cands the list the loop walks), or gaierror.
getaddrinfo(c, answers) ==
    /\ call[c].pc = "getaddrinfo"
    /\ \/ \E ans \in answers :
             call' = [call EXCEPT ![c] =
                        [@ EXCEPT !.pc = "for", !.answer = ans, !.cands = ans, !.i = 0,
                                  !.err = NoExc]]
       \/ call' = [call EXCEPT ![c] =
                     [@ EXCEPT !.pc = "cc_done",
                               !.cc = Raised(Exc("socket.gaierror",
                                                 <<"Name or service not known">>, NoAddr))]]
    /\ UNCHANGED <<net, sockets, probe, session, req>>

\* for res in ...: the next candidate (sock = None), or the end of the loop.
for_next(c) ==
    /\ call[c].pc = "for"
    /\ call' = [call EXCEPT ![c] =
                  IF @.i < Len(@.cands)
                  THEN [@ EXCEPT !.pc = "check", !.i = @ + 1, !.sock = 0]
                  ELSE [@ EXCEPT !.pc = "after"]]
    /\ UNCHANGED <<net, sockets, probe, session, req>>

\* check without its `continue`: every candidate goes on to the try block.
check_unfiltered(c) ==
    /\ call[c].pc = "check"
    /\ call' = [call EXCEPT ![c] =
                  [@ EXCEPT !.pc = "socket", !.classified = Append(@, call[c].i)]]
    /\ UNCHANGED <<net, sockets, probe, session, req>>

\* check that records an error for a filtered candidate before `continue`.
check_records_filtered(c) ==
    /\ call[c].pc = "check"
    /\ call' = [call EXCEPT ![c] =
                  IF ip_is_safe(Cur(c).sa0)
                  THEN [@ EXCEPT !.pc = "socket", !.classified = Append(@, call[c].i)]
                  ELSE [@ EXCEPT !.pc = "for", !.classified = Append(@, call[c].i),
                                 !.err = Exc("socket.error", <<"unsafe address">>,
                                             Cur(c).sa0)]]
    /\ UNCHANGED <<net, sockets, probe, session, req>>

\* check with ip_is_safe answering False for what is no IP literal.
check_malformed_filtered(c) ==
    /\ call[c].pc = "check"
    /\ call' = [call EXCEPT ![c] =
                  [@ EXCEPT !.pc = IF ~ip_address_raises(Cur(c).sa0) /\ ip_is_safe(Cur(c).sa0)
                                   THEN "socket" ELSE "for",
                            !.classified = Append(@, call[c].i)]]
    /\ UNCHANGED <<net, sockets, probe, session, req>>

\* if not ip_is_safe(sa[0]): continue.  ValueError escapes the call.
check(c) ==
    /\ call[c].pc = "check"
    /\ call' = [call EXCEPT ![c] =
                  IF ip_address_raises(Cur(c).sa0)
                  THEN [@ EXCEPT !.pc = "cc_done",
                                 !.cc = Raised(Exc("ValueError",
                                                   <<"does not appear to be an IPv4 or IPv6 address">>,
                                                   Cur(c).sa0))]
                  ELSE [@ EXCEPT !.pc = IF ip_is_safe(Cur(c).sa0) THEN "socket" ELSE "for",
                                 !.classified = Append(@, call[c].i)]]
    /\ UNCHANGED <<net, sockets, probe, session, req>>

\* try: sock = socket.socket(af, socktype, proto)
try_socket(c) ==
    /\ call[c].pc = "socket"
    /\ LET att == [i |-> call[c].i, exc |-> NoExc, open |-> TRUE] IN
       IF Reach(Cur(c).sa0) = "nosocket"
       THEN /\ call' = [call EXCEPT ![c] =
                          [@ EXCEPT !.pc = "except", !.attempts = Append(@, att),
                                    !.exc = Exc("socket.error",
                                                <<"Address family not supported by protocol">>,
                                                Cur(c).sa0)]]
            /\ UNCHANGED sockets
       ELSE /\ sockets' = Append(sockets,
                                 [owner |-> c, af |-> Cur(c).af, addr |-> Cur(c).sa0,
                                  state |-> "open", ops |-> << <<"socket", Cur(c).af>> >>])
            /\ call' = [call EXCEPT ![c] =
                          [@ EXCEPT !.pc = "setsockopt", !.attempts = Append(@, att),
                                    !.sock = Len(sockets) + 1]]
    /\ UNCHANGED <<net, probe, session, req>>

\* for opt in socket_options: sock.setsockopt(*opt).  Iterating None raises
\* TypeError, which the except clause does not catch.
try_setsockopt(c) ==
    /\ call[c].pc = "setsockopt"
    /\ IF call[c].opts.none
       THEN /\ call' = [call EXCEPT ![c] =
                          [@ EXCEPT !.pc = "cc_done",
                                    !.attempts = EndAttempt(c, Exc("TypeError",
                                                    <<"'NoneType' object is not iterable">>,
                                                    Cur(c).sa0)),
                                    !.cc = Raised(Exc("TypeError",
                                                      <<"'NoneType' object is not iterable">>,
                                                      Cur(c).sa0))]]
            /\ UNCHANGED sockets
       ELSE /\ call' = [call EXCEPT ![c] = [@ EXCEPT !.pc = "settimeout"]]
            /\ sockets' = [sockets EXCEPT ![call[c].sock] =
                             [@ EXCEPT !.ops = SetOpts(@, call[c].opts.list)]]
    /\ UNCHANGED <<net, probe, session, req>>

\* if timeout is not socket._GLOBAL_DEFAULT_TIMEOUT: sock.settimeout(timeout)
try_settimeout(c) ==
    /\ call[c].pc = "settimeout"
    /\ call' = [call EXCEPT ![c] = [@ EXCEPT !.pc = "connect"]]
    /\ sockets' = IF call[c].timeout # GLOBAL_DEFAULT_TIMEOUT
                  THEN SockOp(call[c].sock, <<"settimeout", call[c].timeout>>, "open")
                  ELSE sockets
    /\ UNCHANGED <<net, probe, session, req>>

\* sock.connect(sa); return sock
try_connect(c) ==
    /\ call[c].pc = "connect"
    /\ IF Reach(Cur(c).sa0) = "connected"
       THEN /\ sockets' = SockOp(call[c].sock, <<"connect">>, "connected")
            /\ call' = [call EXCEPT ![c] =
                          [@ EXCEPT !.pc = "cc_done", !.attempts = EndAttempt(c, NoExc),
                                    !.cc = Returned(call[c].sock)]]
       ELSE /\ sockets' = SockOp(call[c].sock, <<"connect">>, "open")
            /\ call' = [call EXCEPT ![c] =
                          [@ EXCEPT !.pc = "except", !.exc = ConnectExc(Cur(c).sa0)]]
    /\ UNCHANGED <<net, probe, session, req>>

\* except_handler keeping the first error: `if err is None: err = e`.
except_keeps_first(c) ==
    /\ call[c].pc = "except"
    /\ call' = [call EXCEPT ![c] =
                  [@ EXCEPT !.pc = "for", !.exc = NoExc, !.sock = 0,
                            !.err = IF @ = NoExc THEN call[c].exc ELSE @,
                            !.attempts = EndAttempt(c, call[c].exc)]]
    /\ sockets' = IF call[c].sock # 0
                  THEN SockOp(call[c].sock, <<"close">>, "closed")
                  ELSE sockets
    /\ UNCHANGED <<net, probe, session, req>>

\* except_handler that goes back to the failed candidate.
except_retries(c) ==
    /\ call[c].pc = "except"
    /\ call' = [call EXCEPT ![c] =
                  [@ EXCEPT !.pc = "for", !.err = call[c].exc, !.exc = NoExc, !.sock = 0,
                            !.i = @ - 1, !.attempts = EndAttempt(c, call[c].exc)]]
    /\ sockets' = IF call[c].sock # 0
                  THEN SockOp(call[c].sock, <<"close">>, "closed")
                  ELSE sockets
    /\ UNCHANGED <<net, probe, session, req>>

\* except_handler with `sock` a name shared by the calls: it closes the
\* socket created last, whoever created it.
except_closes_latest(c) ==
    /\ call[c].pc = "except"
    /\ call' = [call EXCEPT ![c] =
                  [@ EXCEPT !.pc = "for", !.err = call[c].exc, !.exc = NoExc, !.sock = 0,
                            !.attempts = EndAttempt(c, call[c].exc)]]
    /\ sockets' = IF call[c].sock # 0
                  THEN SockOp(Len(sockets), <<"close">>, "closed")
                  ELSE sockets
    /\ UNCHANGED <<net, probe, session, req>>

\* except socket.error as e: err = e; if sock is not None: sock.close(); sock = None
except_handler(c) ==
    /\ call[c].pc = "except"
    /\ call' = [call EXCEPT ![c] =
                  [@ EXCEPT !.pc = "for", !.err = call[c].exc, !.exc = NoExc, !.sock = 0,
                            !.attempts = EndAttempt(c, call[c].exc)]]
    /\ sockets' = IF call[c].sock # 0
                  THEN SockOp(call[c].sock, <<"close">>, "closed")
                  ELSE sockets
    /\ UNCHANGED <<net, probe, session, req>>

\* after_loop without `if err is not None: raise err`.
after_loop_always_empty(c) ==
    /\ call[c].pc = "after"
    /\ call' = [call EXCEPT ![c] =
                  [@ EXCEPT !.pc = "cc_done",
                            !.cc = Raised(Exc("socket.error",
                                              <<"getaddrinfo returns an empty list">>,
                                              NoAddr))]]
    /\ UNCHANGED <<net, sockets, probe, session, req>>

\* after_loop raising under another text when nothing was attempted.
after_loop_other_text(c) ==
    /\ call[c].pc = "after"
    /\ call' = [call EXCEPT ![c] =
                  [@ EXCEPT !.pc = "cc_done",
                            !.cc = IF call[c].err # NoExc
                                   THEN Raised(call[c].err)
                                   ELSE Raised(Exc("socket.error",
                                                   <<"no usable address found">>,
                                                   NoAddr))]]
    /\ UNCHANGED <<net, sockets, probe, session, req>>

\* if err is not None: raise err
\* raise socket.error("getaddrinfo returns an empty list")
after_loop(c) ==
    /\ call[c].pc = "after"
    /\ call' = [call EXCEPT ![c] =
                  [@ EXCEPT !.pc = "cc_done",
                            !.cc = IF call[c].err # NoExc
                                   THEN Raised(call[c].err)
                                   ELSE Raised(Exc("socket.error",
                                                   <<"getaddrinfo returns an empty list">>,
                                                   NoAddr))]]
    /\ UNCHANGED <<net, sockets, probe, session, req>>

\* _new_conn, from the call on: SocketTimeout becomes ConnectTimeoutError,
\* any other SocketError NewConnectionError; anything else propagates.
new_conn_return(c) ==
    /\ call[c].pc = "cc_done"
    /\ LET r == call[c].cc IN
       call' = [call EXCEPT ![c] =
                  [@ EXCEPT !.pc = "done",
                            !.out =
                               IF r.kind = "return" THEN r
                               ELSE IF IsSocketTimeout(r.exc)
                               THEN Raised(Exc("ConnectTimeoutError",
                                               <<"Connection to host timed out. (connect timeout=",
                                                 call[c].timeout, ")">>, r.exc.addr))
                               ELSE IF IsSocketError(r.exc)
                               THEN Raised(Exc("NewConnectionError",
                                               <<"Failed to establish a new connection: ">>
                                                  \o r.exc.msg, r.exc.addr))
                               ELSE r]]
    /\ UNCHANGED <<net, sockets, probe, session, req>>

\* One step of dial c.
Dial(c) ==
    \/ for_next(c)
    \/ check(c)
    \/ try_socket(c)
    \/ try_setsockopt(c)
    \/ try_settimeout(c)
    \/ try_connect(c)
    \/ except_handler(c)
    \/ after_loop(c)
    \/ new_conn_return(c)

----------------------------------------------------------------------------
(* One dial through SafeHTTPConnection._new_conn *)

NoProbe == [ip |-> NoAddr, verdict |-> "none"]

\* A URL prefix or a URL: a scheme and a host ("" in a prefix: any host).
Url(scheme, host) == [scheme |-> scheme, host |-> host]

\* url.startswith(prefix)
StartsWith(url, prefix) ==
    /\ url.scheme = prefix.scheme
    /\ prefix.host = "" \/ prefix.host = url.host

\* len(prefix) of "http://", "https://", "http://intranet", ...
PrefixLen(prefix) ==
    (IF prefix.scheme = "http" THEN 7 ELSE 8) + (IF prefix.host = "" THEN 0 ELSE 8)

Mounted(prefix, adapter) == [prefix |-> prefix, adapter |-> adapter]

RECURSIVE SelectShorter(_, _, _)
SelectShorter(ads, n, shorter) ==
    IF ads = <<>> THEN <<>>
    ELSE (IF (PrefixLen(Head(ads).prefix) < n) = shorter THEN <<Head(ads)>> ELSE <<>>)
         \o SelectShorter(Tail(ads), n, shorter)

\* requests.Session.mount: self.adapters[prefix] = adapter, then every key
\* shorter than prefix is moved to the end of the ordered dict.
mount(ads, prefix, adapter) ==
    LET put == IF \E k \in 1..Len(ads) : ads[k].prefix = prefix
               THEN [k \in 1..Len(ads) |->
                       IF ads[k].prefix = prefix THEN Mounted(prefix, adapter) ELSE ads[k]]
               ELSE Append(ads, Mounted(prefix, adapter))
    IN  SelectShorter(put, PrefixLen(prefix), FALSE)
        \o SelectShorter(put, PrefixLen(prefix), TRUE)

\* requests.Session(): https:// and http:// mounted on plain HTTPAdapters.
NewSession ==
    [adapters |-> mount(mount(<<>>, Url("https", ""), "HTTPAdapter"),
                        Url("http", ""), "HTTPAdapter"),
     applied |-> FALSE]

NoReq ==
    [pc |-> "idle", url |-> Url("", ""), redirects |-> 0, base |-> 0,
     via |-> "", result |-> "none"]

Init ==
    /\ net \in [SafeSample -> Outcomes]
    /\ call = [c \in Calls |-> IdleCall]
    /\ sockets = <<>>
    /\ probe = NoProbe
    /\ session = NewSession
    /\ req = NoReq

Next ==
    \/ new_conn(1, SocketOptionChoices, TimeoutChoices)
    \/ getaddrinfo(1, ResolverAnswers)
    \/ Dial(1)

Spec == Init /\ [][Next]_vars

\* Every step of the dial is blocking code that returns: the resolver answers
\* and every call on a socket comes back (with a result or an error).
LiveNext ==
    \/ new_conn(1, {NoneOpts, ListOpts(<<"TCP_NODELAY", "SO_KEEPALIVE">>)}, {"5"})
    \/ getaddrinfo(1, AnswersOver(SafeSample \cup {UNSAFE4}, MaxCands))
    \/ Dial(1)

LiveSpec == Init /\ [][LiveNext]_vars /\ WF_vars(LiveNext)

----------------------------------------------------------------------------
(* Two dials in a row with the same arguments on the same network: the     *)
(* resolver answers the second with the candidates of the first less some  *)
(* (any, all or none) of the unsafe ones.                                  *)

\* The entries of L at the indices in keep, from index k on, in order.
RECURSIVE Pick(_, _, _)
Pick(L, keep, k) ==
    IF k > Len(L) THEN <<>>
    ELSE (IF k \in keep THEN <<L[k]>> ELSE <<>>) \o Pick(L, keep, k + 1)

LessSomeUnsafe(L) ==
    {Pick(L, keep, 1) :
        keep \in {K \in SUBSET (1..Len(L)) :
                     \A k \in 1..Len(L) : L[k].sa0 \in SafeSample => k \in K}}

\* Dial 2 starts when dial 1 is over.
PairTurn(c) == c = 2 => call[1].pc = "done"

\* Dial 1 is given no socket options or a list of them, and a timeout of
\* its own, so that every call on a socket is made and compared.
PairNext ==
    \/ new_conn(1, SocketOptionChoices \ {ListOpts(<<>>)}, TimeoutChoices \ {GLOBAL_DEFAULT_TIMEOUT})
    \/ getaddrinfo(1, ResolverAnswers)
    \/ \E c \in Calls : PairTurn(c) /\ for_next(c)
    \/ \E c \in Calls : PairTurn(c) /\ check(c)
    \/ \E c \in Calls : PairTurn(c) /\ try_socket(c)
    \/ \E c \in Calls : PairTurn(c) /\ try_setsockopt(c)
    \/ \E c \in Calls : PairTurn(c) /\ try_settimeout(c)
    \/ \E c \in Calls : PairTurn(c) /\ try_connect(c)
    \/ \E c \in Calls : PairTurn(c) /\ except_handler(c)
    \/ \E c \in Calls : PairTurn(c) /\ after_loop(c)
    \/ \E c \in Calls : PairTurn(c) /\ new_conn_return(c)
    \/ PairTurn(2) /\ new_conn(2, {call[1].conn_opts}, {call[1].timeout})
    \/ PairTurn(2) /\ getaddrinfo(2, LessSomeUnsafe(call[1].cands))

PairSpec == Init /\ [][PairNext]_vars

----------------------------------------------------------------------------
(* ip_is_safe called on its own, on the edges of every listed network *)

\* The lowest and the highest address of a network.
FirstAddr(n) == [v |-> n.v, g |-> n.g]

LastAddr(n) ==
    [v |-> n.v,
     g |-> [k \in 1..Len(n.g) |->
              n.g[k] + Pow2(GroupBits(n.v) - PrefixBitsIn(n.v, n.plen, k)) - 1]]

\* ip with bit p (1 is the most significant) inverted.
FlipBit(ip, p) ==
    LET w == GroupBits(ip.v)
        k == ((p - 1) \div w) + 1
        bit == Pow2(w - 1 - ((p - 1) % w))
    IN  [ip EXCEPT !.g[k] = IF (@ \div bit) % 2 = 1 THEN @ - bit ELSE @ + bit]

EdgesOf(n) ==
    {FirstAddr(n), LastAddr(n)}
    \cup {FlipBit(FirstAddr(n), p) : p \in 1..(Len(n.g) * GroupBits(n.v))}
    \cup {FlipBit(LastAddr(n), p) : p \in 1..(Len(n.g) * GroupBits(n.v))}

ClassifySamples ==
    {V4(8, 8, 8, 8), SAFE4, SAFE6, UNSAFE4, UNSAFE6, Malformed}
    \cup UNION {EdgesOf(UNSAFE_NETWORKS[k]) : k \in 1..Len(UNSAFE_NETWORKS)}

ClassifyInit ==
    /\ net = [a \in SafeSample |-> "connected"]
    /\ call = [c \in Calls |-> IdleCall]
    /\ sockets = <<>>
    /\ probe \in {[ip |-> a, verdict |-> "none"] : a \in ClassifySamples}
    /\ session = NewSession
    /\ req = NoReq

ip_is_safe_call ==
    /\ probe.verdict = "none"
    /\ probe' = [probe EXCEPT !.verdict = ip_is_safe_result(probe.ip)]
    /\ UNCHANGED <<net, call, sockets, session, req>>

ClassifyNext == ip_is_safe_call

ClassifySpec == ClassifyInit /\ [][ClassifyNext]_vars

----------------------------------------------------------------------------
(* A resolver answer that holds something that is no IP literal *)

\* The answers of up to MaxCands candidates, each a safe address, an unsafe
\* one or no IP literal at all.
ParseAnswers == AnswersOver({SAFE4, UNSAFE4, Malformed}, MaxCands)

ParseInit ==
    /\ net \in [SafeSample -> Outcomes]
    /\ call = [c \in Calls |-> IdleCall]
    /\ sockets = <<>>
    /\ probe = [ip |-> Malformed, verdict |-> "none"]
    /\ session = NewSession
    /\ req = NoReq

ParseNext ==
    \/ ip_is_safe_call
    \/ new_conn(1, SocketOptionChoices, TimeoutChoices)
    \/ getaddrinfo(1, ParseAnswers)
    \/ Dial(1)

ParseSpec == ParseInit /\ [][ParseNext]_vars

----------------------------------------------------------------------------
(* A session: apply(session), then session.get(url) following redirects *)

\* Redirects one request follows.
MaxRedirects == 1

\* Longest resolver answer to a hop of a request.
MaxHopCands == 2

Urls == {Url("http", "example.com"), Url("https", "example.com"), Url("http", "intranet")}

\* A prefix some other code mounted on the session before apply.
OtherPrefix == Url("http", "intranet")

\* What the resolver may answer for the host of a hop.
HopAnswers == AnswersOver({SAFE4, UNSAFE4}, MaxHopCands)

\* urllib3's default_socket_options, which a connection has unless told otherwise.
DefaultSocketOptions == ListOpts(<<"TCP_NODELAY">>)

\* session.mount(prefix, HTTPAdapter()) by the owner of the session.
mount_other ==
    /\ ~session.applied
    /\ \A k \in 1..Len(session.adapters) : session.adapters[k].prefix # OtherPrefix
    /\ session' = [session EXCEPT !.adapters = mount(@, OtherPrefix, "HTTPAdapter")]
    /\ UNCHANGED <<net, call, sockets, probe, req>>

\* apply that mounts the adapter on "http://" only.
apply_http_only ==
    /\ ~session.applied
    /\ session' = [adapters |-> mount(session.adapters, Url("http", ""), "SafeHTTPAdapter"),
                   applied |-> TRUE]
    /\ UNCHANGED <<net, call, sockets, probe, req>>

\* apply(session): adapter = SafeHTTPAdapter(); mount it on http:// and https://
apply ==
    /\ ~session.applied
    /\ session' = [adapters |-> mount(mount(session.adapters, Url("http", ""),
                                            "SafeHTTPAdapter"),
                                      Url("https", ""), "SafeHTTPAdapter"),
                   applied |-> TRUE]
    /\ UNCHANGED <<net, call, sockets, probe, req>>

\* requests.Session.get_adapter: the first mounted prefix the URL starts with.
RECURSIVE get_adapter(_, _)
get_adapter(ads, url) ==
    IF ads = <<>> THEN Mounted(Url("", ""), "InvalidSchema")
    ELSE IF StartsWith(url, Head(ads).prefix) THEN Head(ads)
    ELSE get_adapter(Tail(ads), url)

\* SafeHTTPAdapter.init_poolmanager builds a SafePoolManager, HTTPAdapter's a PoolManager.
poolmanager(adapter) ==
    IF adapter = "SafeHTTPAdapter" THEN "SafePoolManager" ELSE "PoolManager"

\* SafePoolManager with only the http pool class replaced.
pool_classes_https_default(manager) ==
    IF manager = "SafePoolManager"
    THEN [http |-> "SafeHTTPConnectionPool", https |-> "HTTPSConnectionPool"]
    ELSE [http |-> "HTTPConnectionPool", https |-> "HTTPSConnectionPool"]

\* SafePoolManager.__init__: self.pool_classes_by_scheme = {...}
pool_classes_by_scheme(manager) ==
    IF manager = "SafePoolManager"
    THEN [http |-> "SafeHTTPConnectionPool", https |-> "SafeHTTPSConnectionPool"]
    ELSE [http |-> "HTTPConnectionPool", https |-> "HTTPSConnectionPool"]

\* ConnectionCls of each pool class.
ConnectionCls(pool) ==
    CASE pool = "SafeHTTPConnectionPool" -> "SafeHTTPConnection"
      [] pool = "SafeHTTPSConnectionPool" -> "SafeHTTPSConnection"
      [] pool = "HTTPConnectionPool" -> "HTTPConnection"
      [] OTHER -> "HTTPSConnection"

\* Whose _new_conn a connection class runs: SafeHTTPSConnection inherits
\* SafeHTTPConnection's, the urllib3 classes run their own.
NewConnOf(cls) ==
    IF cls \in {"SafeHTTPConnection", "SafeHTTPSConnection"}
    THEN "SafeHTTPConnection._new_conn"
    ELSE "HTTPConnection._new_conn"

\* The dialer a new physical connection for url ends up with.
DialerFor(ads, url) ==
    LET m == get_adapter(ads, url) IN
    NewConnOf(ConnectionCls(pool_classes_by_scheme(poolmanager(m.adapter))[url.scheme]))

\* session.get(url)
get ==
    /\ session.applied
    /\ req.pc = "idle"
    /\ \E u \in Urls : req' = [req EXCEPT !.pc = "send", !.url = u]
    /\ UNCHANGED <<net, call, sockets, probe, session>>

\* A new physical connection for the hop, through the safe _new_conn.
send_safe ==
    /\ req.pc = "send"
    /\ DialerFor(session.adapters, req.url) = "SafeHTTPConnection._new_conn"
    /\ req' = [req EXCEPT !.pc = "dial", !.via = "SafeHTTPConnection._new_conn",
                          !.base = Len(sockets)]
    /\ call' = [call EXCEPT ![1] = IdleCall]
    /\ UNCHANGED <<net, sockets, probe, session>>

\* The sockets of urllib3's own create_connection on candidates k.. of ans:
\* no candidate is left out, the first to accept the connect ends the loop.
RECURSIVE UnfilteredSockets(_, _)
UnfilteredSockets(ans, k) ==
    IF k > Len(ans) THEN <<>>
    ELSE LET sk(st) == [owner |-> 1, af |-> ans[k].af, addr |-> ans[k].sa0, state |-> st,
                        ops |-> << <<"socket", ans[k].af>>, <<"connect">> >>]
         IN  CASE Reach(ans[k].sa0) = "connected" -> <<sk("connected")>>
               [] Reach(ans[k].sa0) = "nosocket" -> UnfilteredSockets(ans, k + 1)
               [] OTHER -> <<sk("closed")>> \o UnfilteredSockets(ans, k + 1)

\* A new physical connection for the hop through urllib3's HTTPConnection._new_conn.
send_default ==
    /\ req.pc = "send"
    /\ DialerFor(session.adapters, req.url) = "HTTPConnection._new_conn"
    /\ req' = [req EXCEPT !.pc = "dial", !.via = "HTTPConnection._new_conn",
                          !.base = Len(sockets)]
    /\ \E ans \in HopAnswers :
          LET made == UnfilteredSockets(ans, 1)
              ok == made # <<>> /\ made[Len(made)].state = "connected"
              res == IF ok THEN Returned(Len(sockets) + Len(made))
                     ELSE Raised(Exc("NewConnectionError",
                                     <<"Failed to establish a new connection: ">>, NoAddr))
          IN  /\ sockets' = sockets \o made
              /\ call' = [call EXCEPT ![1] =
                            [IdleCall EXCEPT !.pc = "done", !.cands = ans,
                                             !.cc = res, !.out = res]]
    /\ UNCHANGED <<net, probe, session>>

\* The exception session.get raises for what _new_conn raised.
RequestError(e) ==
    CASE e.type = "ConnectTimeoutError" -> "ConnectTimeout"
      [] e.type = "NewConnectionError" -> "ConnectionError"
      [] OTHER -> e.type

\* The hop's connection attempt is over: the request fails, or the server
\* answers, with the final response or with a redirect to another URL.
hop_done ==
    /\ req.pc = "dial"
    /\ call[1].pc = "done"
    /\ IF call[1].out.kind = "raise"
       THEN req' = [req EXCEPT !.pc = "done", !.result = RequestError(call[1].out.exc)]
       ELSE \/ req' = [req EXCEPT !.pc = "done", !.result = "response"]
            \/ /\ req.redirects < MaxRedirects
               /\ \E u \in Urls \ {req.url} :
                     req' = [req EXCEPT !.pc = "send", !.url = u, !.redirects = @ + 1]
    /\ UNCHANGED <<net, call, sockets, probe, session>>

Dialing == req.pc = "dial"

SessionNext ==
    \/ mount_other
    \/ apply
    \/ get
    \/ send_safe
    \/ send_default
    \/ Dialing /\ new_conn(1, {DefaultSocketOptions}, {GLOBAL_DEFAULT_TIMEOUT})
    \/ Dialing /\ getaddrinfo(1, HopAnswers)
    \/ Dialing /\ for_next(1)
    \/ Dialing /\ check(1)
    \/ Dialing /\ try_socket(1)
    \/ Dialing /\ try_setsockopt(1)
    \/ Dialing /\ try_settimeout(1)
    \/ Dialing /\ try_connect(1)
    \/ Dialing /\ except_handler(1)
    \/ Dialing /\ after_loop(1)
    \/ Dialing /\ new_conn_return(1)
    \/ hop_done

\* A new requests.Session() and no request yet; only the IPv4 sample is
\* resolved to, so only its reachability varies.
SessionInit ==
    /\ Init
    /\ net[SAFE6] = "refused"

SessionSpec == SessionInit /\ [][SessionNext]_vars

----------------------------------------------------------------------------
(* Two dials one after the other, each with a resolver answer of its own *)

SeqNext ==
    \/ new_conn(1, {NoneOpts, DefaultSocketOptions}, {"5"})
    \/ getaddrinfo(1, HopAnswers)
    \/ \E c \in Calls : PairTurn(c) /\ for_next(c)
    \/ \E c \in Calls : PairTurn(c) /\ check(c)
    \/ \E c \in Calls : PairTurn(c) /\ try_socket(c)
    \/ \E c \in Calls : PairTurn(c) /\ try_setsockopt(c)
    \/ \E c \in Calls : PairTurn(c) /\ try_settimeout(c)
    \/ \E c \in Calls : PairTurn(c) /\ try_connect(c)
    \/ \E c \in Calls : PairTurn(c) /\ except_handler(c)
    \/ \E c \in Calls : PairTurn(c) /\ after_loop(c)
    \/ \E c \in Calls : PairTurn(c) /\ new_conn_return(c)
    \/ PairTurn(2) /\ new_conn(2, {NoneOpts, DefaultSocketOptions}, {"5"})
    \/ PairTurn(2) /\ getaddrinfo(2, HopAnswers)

SeqSpec == SessionInit /\ [][SeqNext]_vars

----------------------------------------------------------------------------
(* Two threads, each in a dial of its own, their steps interleaved *)

\* Resolver answers of the tests (one of safe_ips, two of mixed_ips, one of
\* unsafe_ips) and both records of example.com together.
TestAnswers ==
    {<<Res(SAFE4)>>,
     <<Res(UNSAFE6), Res(SAFE6)>>, <<Res(UNSAFE4), Res(SAFE4)>>,
     <<Res(UNSAFE4)>>,
     <<Res(SAFE4), Res(SAFE6)>>}

ThreadsNext ==
    \/ \E c \in Calls : new_conn(c, {NoneOpts, DefaultSocketOptions}, {"5"})
    \/ \E c \in Calls : getaddrinfo(c, TestAnswers)
    \/ \E c \in Calls : for_next(c)
    \/ \E c \in Calls : check(c)
    \/ \E c \in Calls : try_socket(c)
    \/ \E c \in Calls : try_setsockopt(c)
    \/ \E c \in Calls : try_settimeout(c)
    \/ \E c \in Calls : try_connect(c)
    \/ \E c \in Calls : except_handler(c)
    \/ \E c \in Calls : after_loop(c)
    \/ \E c \in Calls : new_conn_return(c)

ThreadsSpec == Init /\ [][ThreadsNext]_vars

----------------------------------------------------------------------------
(* The host string on its way to getaddrinfo *)

\* Longest host string, in characters.
MaxHostLen == 4

\* Brackets, the dot, and a letter for every other character.
HostChars == {"[", "]", ".", "h"}

Hosts == UNION {[1..n -> HostChars] : n \in 0..MaxHostLen}

\* str.rstrip(chars): every trailing character in chars is removed.
RECURSIVE rstrip(_, _)
rstrip(s, chars) ==
    IF s # <<>> /\ s[Len(s)] \in chars THEN rstrip(SubSeq(s, 1, Len(s) - 1), chars) ELSE s

\* str.lstrip(chars)
RECURSIVE lstrip(_, _)
lstrip(s, chars) ==
    IF s # <<>> /\ s[1] \in chars THEN lstrip(Tail(s), chars) ELSE s

\* str.strip(chars)
strip(s, chars) == lstrip(rstrip(s, chars), chars)

\* str.startswith(ch)
startswith(s, ch) == s # <<>> /\ s[1] = ch

HostInit ==
    /\ net = [a \in SafeSample |-> "connected"]
    /\ call = [c \in Calls |-> IdleCall]
    /\ sockets = <<>>
    /\ probe = NoProbe
    /\ session = NewSession
    /\ req \in {[pc |-> "new_conn", host |-> h, passed |-> <<>>, resolved |-> <<>>] :
                  h \in Hosts}

\* _new_conn: create_connection((self.host.rstrip("."), self.port), ...)
new_conn_host ==
    /\ req.pc = "new_conn"
    /\ req' = [req EXCEPT !.pc = "create_connection", !.passed = rstrip(req.host, {"."})]
    /\ UNCHANGED <<net, call, sockets, probe, session>>

\* create_connection stripping brackets whatever the host starts with.
create_connection_host_always_strips ==
    /\ req.pc = "create_connection"
    /\ req' = [req EXCEPT !.pc = "getaddrinfo", !.resolved = strip(req.passed, {"[", "]"})]
    /\ UNCHANGED <<net, call, sockets, probe, session>>

\* create_connection: if host.startswith("["): host = host.strip("[]")
create_connection_host ==
    /\ req.pc = "create_connection"
    /\ req' = [req EXCEPT !.pc = "getaddrinfo",
                          !.resolved = IF startswith(req.passed, "[")
                                       THEN strip(req.passed, {"[", "]"})
                                       ELSE req.passed]
    /\ UNCHANGED <<net, call, sockets, probe, session>>

HostNext == new_conn_host \/ create_connection_host

HostSpec == HostInit /\ [][HostNext]_vars

----------------------------------------------------------------------------
(* What the claims speak of *)

Ended(c) == call[c].pc \in {"cc_done", "done"}

\* The sockets call c created, in creation order, without their owner.
RECURSIVE OwnSockets(_, _)
OwnSockets(c, k) ==
    IF k > Len(sockets) THEN <<>>
    ELSE (IF sockets[k].owner = c
          THEN << [af |-> sockets[k].af, addr |-> sockets[k].addr,
                   state |-> sockets[k].state, ops |-> sockets[k].ops] >>
          ELSE <<>>) \o OwnSockets(c, k + 1)

IsNoAddresses(o) ==
    /\ o.kind = "raise"
    /\ o.exc.type = "socket.error"
    /\ o.exc.msg = <<"getaddrinfo returns an empty list">>

\* getaddrinfo answered call c with a candidate list.
Resolved(c) == Ended(c) /\ call[c].cc.exc.type # "socket.gaierror"

\* Indices of the candidates of call c that are safe and accept a connect.
SafeReachable(c) ==
    {j \in 1..Len(call[c].cands) :
        /\ call[c].cands[j].sa0 \in SafeSample
        /\ Reach(call[c].cands[j].sa0) = "connected"}

Min(S) == CHOOSE x \in S : \A y \in S : x <= y

Upto(n) == [k \in 1..n |-> k]

\* C1: no socket is ever created for (so no connect is ever called on) a
\* candidate that ip_is_safe classifies as unsafe, and a returned transport
\* is a connected socket of the call for a candidate ip_is_safe calls safe.
C1_OnlySafeSockets ==
    /\ \A s \in 1..Len(sockets) :
          /\ ip_is_safe(sockets[s].addr)
          /\ sockets[s].addr \notin UnsafeSample
    /\ \A c \in Calls :
          call[c].cc.kind = "return" =>
             LET s == sockets[call[c].cc.sock] IN
             /\ s.owner = c
             /\ s.state = "connected"
             /\ ip_is_safe(s.addr)
             /\ s.addr = Cur(c).sa0

\* A dial has returned a transport although an unsafe candidate came first.
C1_Witness ==
    /\ call[1].pc = "done"
    /\ call[1].out.kind = "return"
    /\ call[1].cands[1].sa0 \in UnsafeSample

\* C2: candidates are classified one at a time in resolver order; a returned
\* transport is connected to the earliest safe and reachable candidate and
\* nothing after it is classified or attempted; and a list that holds a safe
\* reachable candidate (an unsafe one before it or not) succeeds via it.
C2_FirstSafeReachableWins ==
    \A c \in Calls :
       /\ call[c].classified = Upto(Len(call[c].classified))
       /\ \A k \in 1..Len(call[c].attempts) :
             /\ call[c].attempts[k].i <= call[c].i
             /\ k > 1 => call[c].attempts[k - 1].i < call[c].attempts[k].i
       /\ call[c].cc.kind = "return" =>
             /\ SafeReachable(c) # {}
             /\ call[c].i = Min(SafeReachable(c))
             /\ sockets[call[c].cc.sock].addr = call[c].cands[call[c].i].sa0
             /\ call[c].classified = Upto(call[c].i)
       /\ (Resolved(c) /\ SafeReachable(c) # {}) => call[c].cc.kind = "return"

\* C3: the dial fails with "getaddrinfo returns an empty list" exactly when
\* the candidate list was empty or every candidate was filtered; then no
\* attempt was made and no socket created; after an attempt, never.
C3_NoAddressesIffAllFiltered ==
    \A c \in Calls :
       Resolved(c) =>
          /\ IsNoAddresses(call[c].cc) <=>
                \A j \in 1..Len(call[c].cands) : call[c].cands[j].sa0 \in UnsafeSample
          /\ IsNoAddresses(call[c].cc) <=> call[c].attempts = <<>>
          /\ IsNoAddresses(call[c].cc) => OwnSockets(c, 1) = <<>>

\* Every candidate of a list of two or more was filtered.
C3_Witness ==
    /\ call[1].pc = "done"
    /\ IsNoAddresses(call[1].cc)
    /\ Len(call[1].cands) >= 2

\* C5: when create_connection returns or raises, every socket it created is
\* closed except the one it returns, at most one is connected, and at the top
\* of the loop (before the next candidate) every socket of the call is closed.
C5_NoSocketLeft ==
    \A c \in Calls :
       /\ Ended(c) =>
             \A s \in 1..Len(sockets) :
                sockets[s].owner = c =>
                   \/ sockets[s].state = "closed"
                   \/ call[c].cc.kind = "return" /\ call[c].cc.sock = s
       /\ Cardinality({s \in 1..Len(sockets) :
                          sockets[s].owner = c /\ sockets[s].state = "connected"}) <= 1
       /\ call[c].pc \in {"for", "check", "after"} =>
             \A s \in 1..Len(sockets) :
                sockets[s].owner = c => sockets[s].state = "closed"

\* C6: when attempts were made and all failed, the dial fails with the error
\* of the last attempted candidate, whatever was filtered after it.
C6_LastErrorSurfaces ==
    \A c \in Calls :
       (Ended(c) /\ call[c].attempts # <<>> /\ call[c].cc.kind = "raise") =>
          LET last == call[c].attempts[Len(call[c].attempts)] IN
          /\ call[c].cc.exc = last.exc
          /\ call[c].cc.exc.addr = call[c].cands[last.i].sa0

\* Two attempts failed differently and a filtered candidate followed them.
C6_Witness ==
    /\ call[1].pc = "done"
    /\ Len(call[1].attempts) = 2
    /\ call[1].attempts[1].exc.type # call[1].attempts[2].exc.type
    /\ call[1].cc.kind = "raise"
    /\ Len(call[1].cands) > call[1].attempts[2].i

\* C7: when every attempt failed, _new_conn raises ConnectTimeoutError if the
\* last attempt's failure was a timeout and NewConnectionError otherwise.
C7_KindFollowsLastAttempt ==
    \A c \in Calls :
       (call[c].pc = "done" /\ call[c].attempts # <<>> /\ call[c].out.kind = "raise") =>
          LET last == call[c].attempts[Len(call[c].attempts)] IN
          call[c].out.exc.type =
             IF last.exc.type = "socket.timeout" THEN "ConnectTimeoutError"
             ELSE "NewConnectionError"

\* What a caller (or whoever watches the host's sockets) sees of dial c: the
\* result of create_connection and of _new_conn, with the address connected
\* to, and the sockets created with every call made on them.
Observable(c) ==
    [cc |-> [kind |-> call[c].cc.kind, exc |-> call[c].cc.exc],
     out |-> [kind |-> call[c].out.kind, exc |-> call[c].out.exc],
     peer |-> IF call[c].cc.kind = "return" THEN sockets[call[c].cc.sock].addr ELSE NoAddr,
     socks |-> OwnSockets(c, 1)]

\* L with every candidate that ip_is_safe rejects removed.
RemoveUnsafe(L) == Pick(L, {k \in 1..Len(L) : ip_is_safe(L[k].sa0)}, 1)

\* C4: two dials with the same arguments on the same network whose candidate
\* lists are equal once the unsafe candidates are removed (so: a list, and
\* that list less any or all of its unsafe candidates) end with the same
\* result, the same error and message, and the same sockets created.
C4_AntiOracle ==
    (/\ call[1].pc = "done" /\ call[2].pc = "done"
     /\ Resolved(1) /\ Resolved(2)
     /\ call[1].conn_opts = call[2].conn_opts /\ call[1].timeout = call[2].timeout
     /\ RemoveUnsafe(call[2].cands) = RemoveUnsafe(call[1].cands))
    => Observable(1) = Observable(2)

\* The second dial ran on the first one's list with its unsafe candidates
\* (first and last) removed, and something was left to attempt.
C4_Witness ==
    /\ call[1].pc = "done" /\ call[2].pc = "done"
    /\ Len(call[1].cands) = 3
    /\ call[1].cands[1].sa0 \in UnsafeSample
    /\ call[1].cands[3].sa0 \in UnsafeSample
    /\ call[2].cands = RemoveUnsafe(call[1].cands)
    /\ Len(call[2].cands) = 1
    /\ call[2].cc.kind = "raise"

\* a <= b for two addresses given as groups, most significant group first.
RECURSIVE LexLeq(_, _, _)
LexLeq(a, b, k) ==
    IF k > Len(a) THEN TRUE
    ELSE IF a[k] < b[k] THEN TRUE
    ELSE IF a[k] > b[k] THEN FALSE
    ELSE LexLeq(a, b, k + 1)

\* ip lies in network n: same family, between its first and last address.
InRange(ip, n) ==
    /\ ip.v = n.v
    /\ LexLeq(n.g, ip.g, 1)
    /\ LexLeq(ip.g, LastAddr(n).g, 1)

Reverse(q) == [k \in 1..Len(q) |-> q[Len(q) + 1 - k]]

\* C10: for a valid address ip_is_safe returns False exactly when the address
\* lies in some listed network of its own family and True otherwise, the same
\* with the list in the opposite order; everything in 10.0.0.0/8 and in
\* 2001:db8::/32 is unsafe, 8.8.8.8 and 2606:2800:220:1:248:1893:25c8:1946 safe.
C10_UnsafeIffInSomeRange ==
    (probe.verdict # "none" /\ ~ip_address_raises(probe.ip)) =>
       /\ probe.verdict \in {"True", "False"}
       /\ probe.verdict = "False" <=>
             \E k \in 1..Len(UNSAFE_NETWORKS) : InRange(probe.ip, UNSAFE_NETWORKS[k])
       /\ probe.verdict = "True" <=>
             ip_is_safe_loop(probe.ip, Reverse(UNSAFE_NETWORKS), 1)
       /\ (probe.ip.v = 4 /\ probe.ip.g[1] = 10) => probe.verdict = "False"
       /\ (probe.ip.v = 6 /\ probe.ip.g[1] = 8193 /\ probe.ip.g[2] = 3512)
             => probe.verdict = "False"
       /\ probe.ip \in {V4(8, 8, 8, 8), SAFE6} => probe.verdict = "True"

\* 255.255.255.255, which two listed networks hold, was judged unsafe.
C10_Witness ==
    /\ probe.ip = V4(255, 255, 255, 255)
    /\ probe.verdict = "False"
    /\ Cardinality({k \in 1..Len(UNSAFE_NETWORKS) :
                       InRange(probe.ip, UNSAFE_NETWORKS[k])}) = 2

\* The session holds what requests.Session() mounts and nothing else, and
\* apply has run on it.
FreshApplied ==
    /\ session.applied
    /\ {session.adapters[k].prefix : k \in 1..Len(session.adapters)}
          = {Url("http", ""), Url("https", "")}

\* The sockets created for the current hop of the request.
HopSockets == SubSeq(sockets, req.base + 1, Len(sockets))

OnlyUnsafe(L) == \A j \in 1..Len(L) : L[j].sa0 \in UnsafeSample

AdapterAt(prefix) ==
    IF \E k \in 1..Len(session.adapters) : session.adapters[k].prefix = prefix
    THEN session.adapters[CHOOSE k \in 1..Len(session.adapters) :
                             session.adapters[k].prefix = prefix].adapter
    ELSE ""

RequestMessage(e) ==
    <<"Max retries exceeded with url (Caused by ", e.type, ": ">> \o e.msg \o <<")">>

Pieces(m) == {m[k] : k \in 1..Len(m)}

\* The texts the operating system gives a failed attempt.
OsTexts ==
    {"Connection refused", "timed out", "Address family not supported by protocol",
     "Name or service not known"}

\* The request is over and its last hop was dialled by the safe dialer on
\* an answer whose every candidate is unsafe.
AllFilteredRequest ==
    /\ req.pc = "done"
    /\ req.via = "SafeHTTPConnection._new_conn"
    /\ Resolved(1)
    /\ call[1].cands # <<>>
    /\ OnlyUnsafe(call[1].cands)

\* C11 as stated: when every candidate is filtered, the message of the
\* connection error the caller gets is "no usable address found".
C11_NoUsableAddressText ==
    AllFilteredRequest =>
       /\ req.result = "ConnectionError"
       /\ "no usable address found" \in Pieces(RequestMessage(call[1].out.exc))

\* C11: when every candidate is filtered, session.get fails with a
\* ConnectionError whose text carries "Failed to establish a new connection: "
\* followed by "getaddrinfo returns an empty list", and no text of the
\* operating system.
C11_EmptyListText ==
    AllFilteredRequest =>
       /\ req.result = "ConnectionError"
       /\ call[1].out.exc.type = "NewConnectionError"
       /\ call[1].out.exc.msg = <<"Failed to establish a new connection: ",
                                  "getaddrinfo returns an empty list">>
       /\ "getaddrinfo returns an empty list" \in Pieces(RequestMessage(call[1].out.exc))
       /\ Pieces(RequestMessage(call[1].out.exc)) \cap OsTexts = {}

\* The only answer was 10.10.10.58 and the request failed at its first hop.
C11_Witness ==
    /\ AllFilteredRequest
    /\ req.redirects = 0
    /\ call[1].cands = <<Res(UNSAFE4)>>
    /\ req.result = "ConnectionError"


\* C12: whatever the candidate list, the outcomes of the attempts and the
\* socket options of the connection (none included), a dial through _new_conn
\* that fails raises ConnectTimeoutError or NewConnectionError, nothing else.
C12_OnlyConnectionFailures ==
    \A c \in Calls :
       (call[c].pc = "done" /\ call[c].out.kind = "raise") =>
          call[c].out.exc.type \in {"ConnectTimeoutError", "NewConnectionError"}


\* The places of the candidates of call c that are no IP literal.
BadCands(c) == {j \in 1..Len(call[c].cands) : ip_address_raises(call[c].cands[j].sa0)}

IsParseError(o) == o.kind = "raise" /\ o.exc.type = "ValueError"

\* C13: ip_is_safe raises the parse error (ValueError) on what is no IP
\* literal, never answering False; in create_connection such a candidate
\* is neither classified (filtered) nor attempted, the dial ends with the
\* parse error as soon as the loop reaches it, and no later candidate is
\* classified or attempted.
C13_ParseErrorEndsDial ==
    /\ (probe.verdict # "none" /\ ip_address_raises(probe.ip)) => probe.verdict = "ValueError"
    /\ \A c \in Calls :
          /\ \A k \in 1..Len(call[c].classified) : call[c].classified[k] \notin BadCands(c)
          /\ \A k \in 1..Len(call[c].attempts) : call[c].attempts[k].i \notin BadCands(c)
          /\ \A s \in 1..Len(sockets) : ~ip_address_raises(sockets[s].addr)
          /\ (BadCands(c) # {} /\ call[c].pc \notin {"idle", "getaddrinfo"}) =>
                call[c].i <= Min(BadCands(c))
          /\ (Ended(c) /\ BadCands(c) # {} /\ call[c].i = Min(BadCands(c))) =>
                /\ IsParseError(call[c].cc)
                /\ call[c].cc.exc.addr = Cur(c).sa0
                /\ call[c].classified = Upto(call[c].i - 1)
                /\ call[c].pc = "done" => call[c].out = call[c].cc
          /\ (Ended(c) /\ IsParseError(call[c].cc)) => call[c].i \in BadCands(c)

\* A first candidate was attempted and failed, the second is no IP literal,
\* a safe third follows: the dial ended with the parse error.
C13_Witness ==
    /\ probe.verdict = "ValueError"
    /\ call[1].pc = "done"
    /\ Len(call[1].cands) = 3
    /\ call[1].cands[2].sa0 = Malformed
    /\ call[1].cands[3].sa0 \in SafeSample
    /\ Len(call[1].attempts) = 1
    /\ IsParseError(call[1].out)


IsPrefix(a, b) == Len(a) <= Len(b) /\ a = SubSeq(b, 1, Len(a))

\* The calls create_connection makes on the socket of an attempt of call c
\* for a candidate of family af, up to and including connect.
AttemptCalls(c, af) ==
    SetOpts(<< <<"socket", af>> >>, call[c].opts.list)
    \o (IF call[c].timeout # GLOBAL_DEFAULT_TIMEOUT
        THEN << <<"settimeout", call[c].timeout>> >> ELSE <<>>)
    \o << <<"connect">> >>

\* C14: on the socket of every attempt the calls are made in this order:
\* socket, every socket option as listed, settimeout exactly when a timeout
\* was given, then connect (then at most a close); every attempt whose
\* socket was created gets all of them, the same for each attempt.
C14_SocketCallOrder ==
    \A s \in 1..Len(sockets) :
       LET c == sockets[s].owner
           all == AttemptCalls(c, sockets[s].af)
       IN  /\ IsPrefix(sockets[s].ops, all \o << <<"close">> >>)
           /\ (Ended(c) \/ call[c].sock # s) =>
                 sockets[s].ops \in {all, all \o << <<"close">> >>}


\* The safe candidates among the first n of call c.
SafeUpTo(c, n) == {j \in 1..n : call[c].cands[j].sa0 \in SafeSample}

\* Each candidate is classified once at most, in order, attempted once at
\* most, and the call has no more sockets than safe candidates it reached.
SinglePass(c) ==
    /\ call[c].classified = Upto(Len(call[c].classified))
    /\ Len(call[c].classified) <= call[c].i
    /\ \A k \in 1..Len(call[c].attempts) :
          /\ call[c].attempts[k].i \in SafeUpTo(c, call[c].i)
          /\ k > 1 => call[c].attempts[k - 1].i < call[c].attempts[k].i
    /\ Len(OwnSockets(c, 1)) <= Len(call[c].attempts)
    /\ Len(OwnSockets(c, 1)) <= Cardinality(SafeUpTo(c, call[c].i))
    /\ call[c].i <= Len(call[c].cands)
    /\ Ended(c) <=> call[c].cc.kind \in {"return", "raise"}

\* The loop only moves forward, and an outcome once reached stays.
ForwardOnly(c) ==
    /\ call[c].pc # "idle" => call[c].i' >= call[c].i
    /\ Ended(c) => (Ended(c)' /\ call[c].cc' = call[c].cc)

\* C15: create_connection passes once over its finite candidate list: each
\* candidate is classified and attempted at most once, none is gone back to,
\* the sockets created are no more than the safe candidates, and a call that
\* has started ends, with a transport or with an error, never both.
C15_SinglePassTerminates ==
    /\ [](SinglePass(1))
    /\ [][ForwardOnly(1)]_vars
    /\ (call[1].pc = "getaddrinfo") ~> Ended(1)

\* The call went over three safe candidates, each attempted and failed,
\* and ended with an error.
C15_Witness ==
    /\ Ended(1)
    /\ Len(call[1].cands) = 3
    /\ Len(call[1].attempts) = 3
    /\ Len(OwnSockets(1, 1)) = 3
    /\ call[1].cc.kind = "raise"


\* What create_connection gives on candidates k.. of L when it runs by
\* itself: the first safe candidate that connects, else the error of the
\* last attempt, else the empty-list error; err is the last error so far.
RECURSIVE AloneOutcome(_, _, _, _)
AloneOutcome(L, k, err, opts) ==
    IF k > Len(L)
    THEN [kind |-> "raise", peer |-> NoAddr,
          exc |-> IF err # NoExc THEN err
                  ELSE Exc("socket.error", <<"getaddrinfo returns an empty list">>, NoAddr)]
    ELSE LET ip == L[k].sa0 IN
         IF ~ip_is_safe(ip) THEN AloneOutcome(L, k + 1, err, opts)
         ELSE IF Reach(ip) = "nosocket"
         THEN AloneOutcome(L, k + 1,
                           Exc("socket.error",
                               <<"Address family not supported by protocol">>, ip), opts)
         ELSE IF opts.none
         THEN [kind |-> "raise", peer |-> NoAddr,
               exc |-> Exc("TypeError", <<"'NoneType' object is not iterable">>, ip)]
         ELSE IF Reach(ip) = "connected"
         THEN [kind |-> "return", peer |-> ip, exc |-> NoExc]
         ELSE AloneOutcome(L, k + 1, ConnectExc(ip), opts)

\* The outcome of create_connection in call c.
Outcome(c) ==
    [kind |-> call[c].cc.kind, exc |-> call[c].cc.exc,
     peer |-> IF call[c].cc.kind = "return" THEN sockets[call[c].cc.sock].addr ELSE NoAddr]

\* C16: in a sequence of dials every call walks the list its own resolution
\* returned, starts with no error and no verdict, and ends as it would by
\* itself on that answer; a host that resolved to a safe address in one call
\* and only to unsafe ones in the next is rejected in the next.
C16_FreshResolutionPerCall ==
    \A c \in Calls :
       /\ call[c].cands = call[c].answer
       /\ (call[c].pc = "for" /\ call[c].i = 0) =>
             /\ call[c].err = NoExc
             /\ call[c].classified = <<>>
             /\ call[c].attempts = <<>>
       /\ (Ended(c) /\ Resolved(c)) =>
             Outcome(c) = AloneOutcome(call[c].answer, 1, NoExc, call[c].opts)
       /\ (c = 2 /\ Ended(c) /\ Resolved(c) /\ call[c].answer # <<>>
             /\ OnlyUnsafe(call[c].answer)) =>
             /\ IsNoAddresses(call[c].cc)
             /\ \A s \in 1..Len(sockets) : sockets[s].owner # c

\* The first dial connected to 93.184.216.34; the second, answered with
\* 10.10.10.58 alone, was rejected.
C16_Witness ==
    /\ call[1].pc = "done" /\ call[2].pc = "done"
    /\ call[1].out.kind = "return"
    /\ sockets[call[1].out.sock].addr = SAFE4
    /\ call[2].answer = <<Res(UNSAFE4)>>
    /\ IsNoAddresses(call[2].cc)


\* Every socket a call works on, returns or has open is one it created,
\* and every call ends as it would by itself on its own answer.
OwnedAndAlone ==
    \A c \in Calls :
       /\ call[c].sock # 0 => sockets[call[c].sock].owner = c
       /\ call[c].cc.kind = "return" =>
             /\ sockets[call[c].cc.sock].owner = c
             /\ sockets[call[c].cc.sock].state = "connected"
       /\ \A s \in 1..Len(sockets) :
             (sockets[s].owner = c /\ sockets[s].state = "connected") =>
                call[c].sock = s \/ call[c].cc = Returned(s)
       /\ (call[c].pc = "socket") => ip_is_safe(Cur(c).sa0)
       /\ (Ended(c) /\ Resolved(c)) =>
             Outcome(c) = AloneOutcome(call[c].answer, 1, NoExc, call[c].opts)

\* The calls made on every socket are those of its creator's attempt, in
\* their order, and nothing else: the socket a call is working on is open,
\* the one it returned is connected, and a socket is closed only by the
\* failure of its creator's attempt on it.
OnlyOwnerTouches ==
    \A s \in 1..Len(sockets) :
       LET c == sockets[s].owner IN
       /\ IsPrefix(sockets[s].ops, AttemptCalls(c, sockets[s].af) \o << <<"close">> >>)
       /\ (call[c].sock = s /\ ~Ended(c)) => sockets[s].state = "open"
       /\ sockets[s].state = "closed" =>
             \E k \in 1..Len(call[c].attempts) :
                /\ call[c].attempts[k].exc # NoExc
                /\ call[c].cands[call[c].attempts[k].i].sa0 = sockets[s].addr
       /\ Cardinality({t \in 1..Len(sockets) : sockets[t].owner = c})
             <= Len(call[c].attempts)

\* C17: under every interleaving of the steps of two concurrent dials, no
\* call connects, closes or returns a socket another call created, every
\* verdict is that of the one constant list of networks, and each call's
\* outcome is the one it would have by itself with the same resolver answer
\* and attempt outcomes.
C17_CallsDoNotInterfere ==
    /\ OwnedAndAlone
    /\ OnlyOwnerTouches

\* Both dials were in the middle of an attempt at once, the second call's
\* socket created before the first call's; in the end the first failed and
\* the second returned its own socket.
C17_Witness ==
    /\ call[1].pc = "done" /\ call[2].pc = "done"
    /\ Len(sockets) >= 2
    /\ sockets[1].owner = 2
    /\ sockets[2].owner = 1
    /\ call[1].cc.kind = "raise"
    /\ call[1].attempts # <<>>
    /\ call[2].cc = Returned(1)


\* s without one trailing dot.
StripOneDot(s) ==
    IF s # <<>> /\ s[Len(s)] = "." THEN SubSeq(s, 1, Len(s) - 1) ELSE s

\* s without the pair of brackets around it.
StripBracketPair(s) ==
    IF Len(s) >= 2 /\ s[1] = "[" /\ s[Len(s)] = "]" THEN SubSeq(s, 2, Len(s) - 1) ELSE s

\* A host in plain form: it neither starts with a bracket nor ends in a dot.
PlainHost(s) == ~startswith(s, "[") /\ (s = <<>> \/ s[Len(s)] # ".")

\* A host with no bracket at either end and no dot at its end.
BareHost(s) ==
    /\ s # <<>>
    /\ s[1] \notin {"[", "]"}
    /\ s[Len(s)] \notin {"[", "]", "."}

\* C18 as stated: the host given to getaddrinfo is the requested host
\* without the brackets around it and without one trailing dot, nothing else
\* changed.
C18_BracketsAndOneDot ==
    req.pc = "getaddrinfo" =>
       req.resolved \in {StripBracketPair(StripOneDot(req.host)),
                         StripOneDot(StripBracketPair(req.host))}

\* C18: the host given to getaddrinfo is the requested host with all its
\* trailing dots removed and then, if it starts with "[", all brackets at
\* both its ends removed; what is between is unchanged.  A plain host stays
\* as it is, and a bare host in brackets, with one trailing dot, or both,
\* is resolved as the plain host.
C18_HostNormalized ==
    req.pc = "getaddrinfo" =>
       /\ \E i \in 1..(Len(req.host) + 1) : \E j \in (i - 1)..Len(req.host) :
             /\ req.resolved = SubSeq(req.host, i, j)
             /\ \A k \in 1..(i - 1) : req.host[k] \in {"[", "]"}
             /\ \A k \in (j + 1)..Len(req.host) : req.host[k] \in {"[", "]", "."}
             /\ i > 1 => startswith(req.host, "[")
       /\ PlainHost(req.host) => req.resolved = req.host
       /\ \A p \in Hosts :
             (BareHost(p)
                /\ req.host \in {p, p \o <<".">>, <<"[">> \o p \o <<"]">>,
                                 <<"[">> \o p \o <<"]", ".">>})
             => req.resolved = p
       /\ req.host = req.passed \o [k \in 1..(Len(req.host) - Len(req.passed)) |-> "."]
       /\ req.passed = <<>> \/ req.passed[Len(req.passed)] # "."

\* "[h]." was resolved as "h".
C18_Witness ==
    /\ req.pc = "getaddrinfo"
    /\ req.host = <<"[", "h", "]", ".">>
    /\ req.resolved = <<"h">>

============================================================================
